---- MODULE Spec2Model ----
(***************************************************************************)
(* A model of log_parser.py: the few-shot/zero-shot template extractors,   *)
(* normalize_template, get_embedding and the driver loop of main.          *)
(*                                                                         *)
(* Text is modelled as a sequence of one-character strings, so that        *)
(* trimming, the regular-expression substitution and JSON decoding are     *)
(* computed character by character, the way the Python code computes them. *)
(***************************************************************************)
EXTENDS Integers, Sequences, FiniteSets, TLC

\* ------------------------------------------------------------------------
\* Bounds of the model
\* ------------------------------------------------------------------------

\* Longest template, in items (a literal character or one placeholder),
\* that the normalizer is applied to.
MaxItems == 4

\* ------------------------------------------------------------------------
\* Text helpers
\* ------------------------------------------------------------------------

\* The characters str.strip() removes (no argument: whitespace).
WhiteSpace == {" ", "\t", "\n", "\r", "\f"}

\* s[i..j] as a sequence (empty when j < i).
Slice(s, i, j) == [k \in 1..(j - i + 1) |-> s[i + k - 1]]

\* Index of the first non-whitespace character at or after i; Len(s)+1 if none.
RECURSIVE SkipLeft(_, _)
SkipLeft(s, i) ==
    IF i > Len(s) THEN i
    ELSE IF s[i] \in WhiteSpace THEN SkipLeft(s, i + 1) ELSE i

\* Index of the last non-whitespace character at or before j; 0 if none.
RECURSIVE SkipRight(_, _)
SkipRight(s, j) ==
    IF j < 1 THEN 0
    ELSE IF s[j] \in WhiteSpace THEN SkipRight(s, j - 1) ELSE j

\* str.strip()
Strip(s) == Slice(s, SkipLeft(s, 1), SkipRight(s, Len(s)))

\* Index of the first ">" at or after i; 0 if there is none.
RECURSIVE FindClose(_, _)
FindClose(s, i) ==
    IF i > Len(s) THEN 0
    ELSE IF s[i] = ">" THEN i ELSE FindClose(s, i + 1)

\* The wildcard every placeholder is replaced with.
Wildcard == <<"<", "*", ">">>

\* re.sub(r"<[^>]+>", "<*>", s), scanning from index i: leftmost,
\* non-overlapping matches; [^>]+ takes every character up to the first ">"
\* and needs at least one.
RECURSIVE ReSub(_, _)
ReSub(s, i) ==
    IF i > Len(s) THEN <<>>
    ELSE IF s[i] = "<"
         THEN LET j == FindClose(s, i + 1)
              IN  IF j >= i + 2
                  THEN Wildcard \o ReSub(s, j + 1)
                  ELSE <<s[i]>> \o ReSub(s, i + 1)
         ELSE <<s[i]>> \o ReSub(s, i + 1)

\* The same substitution with the pattern's closing ">" forgotten
\* (r"<[^>]+"): the match stops before the ">" and leaves it in the text.
RECURSIVE ReSubNoClose(_, _)
ReSubNoClose(s, i) ==
    IF i > Len(s) THEN <<>>
    ELSE IF s[i] = "<" /\ i + 1 <= Len(s) /\ s[i + 1] # ">"
         THEN LET j == FindClose(s, i + 1)
                  e == IF j = 0 THEN Len(s) + 1 ELSE j
              IN  Wildcard \o ReSubNoClose(s, e)
         ELSE <<s[i]>> \o ReSubNoClose(s, i + 1)

normalize_template_noclose(template) == ReSubNoClose(Strip(template), 1)

\* Characters of the model's texts that the class \w does not match.
NonWord == {"<", ">", "*", " ", "\t", "\n", "\r", "\f", "\"", "\\", ":", ",",
            "{", "}", "[", "]"}

\* The same substitution with the pattern r"<\w+>": only names made of word
\* characters are placeholders.
RECURSIVE ReSubWord(_, _)
ReSubWord(s, i) ==
    IF i > Len(s) THEN <<>>
    ELSE IF s[i] = "<"
         THEN LET j == FindClose(s, i + 1)
              IN  IF j >= i + 2 /\ \A k \in (i + 1)..(j - 1) : s[k] \notin NonWord
                  THEN Wildcard \o ReSubWord(s, j + 1)
                  ELSE <<s[i]>> \o ReSubWord(s, i + 1)
         ELSE <<s[i]>> \o ReSubWord(s, i + 1)

normalize_template_word(template) == ReSubWord(Strip(template), 1)

\* normalize_template(template)
normalize_template(template) == ReSub(Strip(template), 1)

\* ------------------------------------------------------------------------
\* JSON values and json.loads
\* ------------------------------------------------------------------------

\* A decoded JSON value.  Every value has the same four fields so that any
\* two values can be compared: kind is "obj", "arr", "str", "num", "true",
\* "false" or "null"; s is the text of a string or the numeral of a number;
\* m is a dict (a function from keys, which are texts, to values); a is a
\* list of values.
JV(kind, s, m, a) == [kind |-> kind, s |-> s, m |-> m, a |-> a]
JStr(s) == JV("str", s, <<>>, <<>>)
JNum(s) == JV("num", s, <<>>, <<>>)
JLit(kind) == JV(kind, <<>>, <<>>, <<>>)
JObj(m) == JV("obj", <<>>, m, <<>>)
JArr(a) == JV("arr", <<>>, <<>>, a)

\* d[k] = v on a dict: a repeated key keeps the last value.
Put(m, k, v) == [x \in (DOMAIN m) \cup {k} |-> IF x = k THEN v ELSE m[x]]

\* json.decoder.WHITESPACE
JsonWs == {" ", "\t", "\n", "\r"}

\* The backspace character, U+0008 (TLA+ strings have no escape for it).
Backspace == "\\x08"

\* Characters below U+0020, which a strict decoder refuses inside a string.
Control == {"\t", "\n", "\r", "\f", Backspace}

\* json.decoder.BACKSLASH: the one-character escapes.
EscChars == {"\"", "\\", "/", "b", "f", "n", "r", "t"}
Unescape(c) ==
    CASE c = "b" -> Backspace
      [] c = "f" -> "\f"
      [] c = "n" -> "\n"
      [] c = "r" -> "\r"
      [] c = "t" -> "\t"
      [] OTHER -> c

Digits == {"0", "1", "2", "3", "4", "5", "6", "7", "8", "9"}

\* The outcome of a scan: a value and the index after it, or the message
\* of the JSONDecodeError.
Ok(v, p) == [ok |-> TRUE, val |-> v, pos |-> p, msg |-> ""]
Fail(msg) == [ok |-> FALSE, val |-> JLit("null"), pos |-> 0, msg |-> msg]

RECURSIVE SkipWs(_, _)
SkipWs(s, i) ==
    IF i > Len(s) THEN i
    ELSE IF s[i] \in JsonWs THEN SkipWs(s, i + 1) ELSE i

\* Whether the text w stands in s at index i.
StartsAt(s, i, w) ==
    /\ i + Len(w) - 1 <= Len(s)
    /\ \A k \in 1..Len(w) : s[i + k - 1] = w[k]

\* py_scanstring, from the index after the opening quote.
RECURSIVE ScanStr(_, _, _)
ScanStr(s, i, acc) ==
    IF i > Len(s) THEN Fail("Unterminated string starting at")
    ELSE IF s[i] = "\"" THEN Ok(JStr(acc), i + 1)
    ELSE IF s[i] \in Control THEN Fail("Invalid control character at")
    ELSE IF s[i] # "\\" THEN ScanStr(s, i + 1, Append(acc, s[i]))
    ELSE IF i + 1 > Len(s) THEN Fail("Unterminated string starting at")
    ELSE IF s[i + 1] \in EscChars
         THEN ScanStr(s, i + 2, Append(acc, Unescape(s[i + 1])))
         ELSE Fail("Invalid \\escape")

\* The end of the run of digits that starts at i.
RECURSIVE SkipDigits(_, _)
SkipDigits(s, i) ==
    IF i > Len(s) THEN i
    ELSE IF s[i] \in Digits THEN SkipDigits(s, i + 1) ELSE i

\* NUMBER_RE for the model's numerals, -?(0|[1-9][0-9]*): the index after
\* the match that starts at i, or 0 when there is none.
MatchInt(s, i) ==
    LET d == IF i <= Len(s) /\ s[i] = "-" THEN i + 1 ELSE i
    IN  IF d > Len(s) \/ s[d] \notin Digits THEN 0
        ELSE IF s[d] = "0" THEN d + 1
        ELSE SkipDigits(s, d + 1)

RECURSIVE ScanOnce(_, _)
RECURSIVE Members(_, _, _)
RECURSIVE Elements(_, _, _)

\* JSONObject, after the opening quote of a key; m holds the pairs so far.
Members(s, i, m) ==
    LET k == ScanStr(s, i, <<>>)
    IN  IF ~k.ok THEN k
        ELSE LET c == SkipWs(s, k.pos)
             IN  IF c > Len(s) \/ s[c] # ":"
                 THEN Fail("Expecting ':' delimiter")
                 ELSE LET v == ScanOnce(s, SkipWs(s, c + 1))
                      IN  IF ~v.ok THEN v
                          ELSE LET m2 == Put(m, k.val.s, v.val)
                                   e == SkipWs(s, v.pos)
                               IN  IF e > Len(s) THEN Fail("Expecting ',' delimiter")
                                   ELSE IF s[e] = "}" THEN Ok(JObj(m2), e + 1)
                                   ELSE IF s[e] # "," THEN Fail("Expecting ',' delimiter")
                                   ELSE LET n == SkipWs(s, e + 1)
                                        IN  IF n > Len(s) \/ s[n] # "\""
                                            THEN Fail("Expecting property name enclosed in double quotes")
                                            ELSE Members(s, n + 1, m2)

\* JSONObject, after the "{".
JSONObject(s, i) ==
    LET j == SkipWs(s, i)
    IN  IF j <= Len(s) /\ s[j] = "}" THEN Ok(JObj(<<>>), j + 1)
        ELSE IF j > Len(s) \/ s[j] # "\""
             THEN Fail("Expecting property name enclosed in double quotes")
             ELSE Members(s, j + 1, <<>>)

\* JSONArray, at the start of an element; a holds the elements so far.
Elements(s, i, a) ==
    LET v == ScanOnce(s, i)
    IN  IF ~v.ok THEN v
        ELSE LET a2 == Append(a, v.val)
                 e == SkipWs(s, v.pos)
             IN  IF e > Len(s) THEN Fail("Expecting ',' delimiter")
                 ELSE IF s[e] = "]" THEN Ok(JArr(a2), e + 1)
                 ELSE IF s[e] # "," THEN Fail("Expecting ',' delimiter")
                 ELSE Elements(s, SkipWs(s, e + 1), a2)

\* JSONArray, after the "[".
JSONArray(s, i) ==
    LET j == SkipWs(s, i)
    IN  IF j <= Len(s) /\ s[j] = "]" THEN Ok(JArr(<<>>), j + 1)
        ELSE Elements(s, j, <<>>)

\* scanner.py_make_scanner._scan_once
ScanOnce(s, i) ==
    IF i > Len(s) THEN Fail("Expecting value")
    ELSE IF s[i] = "\"" THEN ScanStr(s, i + 1, <<>>)
    ELSE IF s[i] = "{" THEN JSONObject(s, i + 1)
    ELSE IF s[i] = "[" THEN JSONArray(s, i + 1)
    ELSE IF StartsAt(s, i, <<"n", "u", "l", "l">>) THEN Ok(JLit("null"), i + 4)
    ELSE IF StartsAt(s, i, <<"t", "r", "u", "e">>) THEN Ok(JLit("true"), i + 4)
    ELSE IF StartsAt(s, i, <<"f", "a", "l", "s", "e">>) THEN Ok(JLit("false"), i + 5)
    ELSE IF MatchInt(s, i) # 0
         THEN Ok(JNum(Slice(s, i, MatchInt(s, i) - 1)), MatchInt(s, i))
         ELSE Fail("Expecting value")

\* json.loads(s): JSONDecoder.decode, one value between optional whitespace.
Loads(s) ==
    LET r == ScanOnce(s, SkipWs(s, 1))
    IN  IF ~r.ok THEN r
        ELSE IF SkipWs(s, r.pos) # Len(s) + 1 THEN Fail("Extra data")
        ELSE r

\* The keys the program names.
KeyTemplate == <<"t", "e", "m", "p", "l", "a", "t", "e">>
KeyVariables == <<"v", "a", "r", "i", "a", "b", "l", "e", "s">>
KeyError == <<"e", "r", "r", "o", "r">>
KeyOriginalLog == <<"o", "r", "i", "g", "i", "n", "a", "l", "_", "l", "o", "g">>

\* The template of the record returned for undecodable output.
ParseErrorTemplate == <<"<", "P", "A", "R", "S", "E", "_", "E", "R", "R", "O", "R", ">">>

\* {"template": "<PARSE_ERROR>", "variables": {}, "error": str(e)}; the
\* message is kept whole, as a one-element text.
Sentinel(msg) ==
    JObj(Put(Put(Put(<<>>, KeyTemplate, JStr(ParseErrorTemplate)),
                 KeyVariables, JObj(<<>>)),
             KeyError, JStr(<<msg>>)))

\* ------------------------------------------------------------------------
\* The extractors, from the completion service's answer on
\* ------------------------------------------------------------------------

\* The decoding with the variables defaulted and the unknown fields dropped:
\* a decoded object keeps template, variables (an empty dict when missing)
\* and original_log only.
DecodeDefaulting(content) ==
    LET r == Loads(Strip(content))
        keep == {KeyTemplate, KeyVariables, KeyOriginalLog}
    IN  IF ~r.ok THEN Sentinel(r.msg)
        ELSE IF r.val.kind # "obj" THEN r.val
        ELSE JObj([k \in ((DOMAIN r.val.m) \cap keep) \cup {KeyVariables} |->
                      IF k \in DOMAIN r.val.m THEN r.val.m[k] ELSE JObj(<<>>)])

\* The decoding without the .strip() of the content.
DecodeUnstripped(content) ==
    LET r == Loads(content)
    IN  IF r.ok THEN r.val ELSE Sentinel(r.msg)

\* extract_template_and_variables, from response.choices[0].message.content
\* on: strip, json.loads, and the sentinel record on JSONDecodeError.
extract_template_and_variables(content) ==
    LET r == Loads(Strip(content))
    IN  IF r.ok THEN r.val ELSE Sentinel(r.msg)

\* extract_template_and_variables_fewshot, from the content on (the print
\* of the raw output changes no state).
extract_template_and_variables_fewshot(content) ==
    LET r == Loads(Strip(content))
    IN  IF r.ok THEN r.val ELSE Sentinel(r.msg)

\* ------------------------------------------------------------------------
\* Texts the completion service may answer with
\* ------------------------------------------------------------------------

\* Longest template and longest variable value, in characters, of a
\* generated answer.
MaxTmplLen == 2

\* Characters of generated templates: a letter, a placeholder bracket and
\* the three characters a JSON string has to escape.
TmplChars == {"a", "<", "\"", "\\", "\n"}

Texts(chars, n) == UNION {[1..k -> chars] : k \in 0..n}

\* The escaping of json.dumps for the characters of the model.
RECURSIVE Escape(_)
Escape(s) ==
    IF s = <<>> THEN <<>>
    ELSE LET c == Head(s)
             e == CASE c = "\"" -> <<"\\", "\"">>
                    [] c = "\\" -> <<"\\", "\\">>
                    [] c = "\n" -> <<"\\", "n">>
                    [] c = "\t" -> <<"\\", "t">>
                    [] c = "\r" -> <<"\\", "r">>
                    [] c = "\f" -> <<"\\", "f">>
                    [] c = Backspace -> <<"\\", "b">>
                    [] OTHER -> <<c>>
         IN  e \o Escape(Tail(s))

DumpStr(s) == <<"\"">> \o Escape(s) \o <<"\"">>

\* "{" key: text, key: text ... "}" for a sequence of <<key, text>> pairs.
RECURSIVE DumpMembers(_)
DumpMembers(ps) ==
    IF ps = <<>> THEN <<>>
    ELSE DumpStr(ps[1][1]) \o <<":", " ">> \o ps[1][2]
         \o (IF Len(ps) > 1 THEN <<",", " ">> ELSE <<>>)
         \o DumpMembers(Tail(ps))

DumpObj(ps) == <<"{">> \o DumpMembers(ps) \o <<"}">>

\* The variable mappings of generated answers, as <<name, value>> pairs.
VarMaps(n) ==
    {<<>>} \cup {<< <<(<<"a">>), v>> >> : v \in Texts(TmplChars, n - 1)}
           \cup {<< <<(<<"I", "P">>), <<"1">>>>, <<(<<"a">>), <<"a", " ", "<">>>> >>}

\* The decoded dict of a sequence of <<name, value>> pairs of texts.
RECURSIVE DictOfTexts(_)
DictOfTexts(ps) ==
    IF ps = <<>> THEN <<>>
    ELSE Put(DictOfTexts(SubSeq(ps, 1, Len(ps) - 1)), ps[Len(ps)][1], JStr(ps[Len(ps)][2]))

\* A generated answer: an object with an optional template, optional
\* variables and one optional further field ("orig": original_log, a
\* string; "unknown": a field "x" holding the number 1).
Docs ==
    [hasT : BOOLEAN, t : Texts(TmplChars, MaxTmplLen),
     hasV : BOOLEAN, v : VarMaps(MaxTmplLen),
     more : {"none", "orig", "unknown"}]

\* One representative per answer: the fields of an absent member are fixed.
IsCanonicalDoc(d) ==
    /\ (~d.hasT => d.t = <<>>)
    /\ (~d.hasV => d.v = <<>>)

RECURSIVE DumpTextPairs(_)
DumpTextPairs(ps) ==
    IF ps = <<>> THEN <<>>
    ELSE << <<ps[1][1], DumpStr(ps[1][2])>> >> \o DumpTextPairs(Tail(ps))

\* The text of a generated answer.
DocText(d) ==
    DumpObj(  (IF d.hasT THEN << <<KeyTemplate, DumpStr(d.t)>> >> ELSE <<>>)
           \o (IF d.hasV THEN << <<KeyVariables, DumpObj(DumpTextPairs(d.v))>> >> ELSE <<>>)
           \o (IF d.more = "orig" THEN << <<KeyOriginalLog, DumpStr(<<"a", " ", "1">>)>> >> ELSE <<>>)
           \o (IF d.more = "unknown" THEN << <<(<<"x">>), <<"1">>>> >> ELSE <<>>))

\* The dict that text stands for.
DocDict(d) ==
    LET m0 == <<>>
        m1 == IF d.hasT THEN Put(m0, KeyTemplate, JStr(d.t)) ELSE m0
        m2 == IF d.hasV THEN Put(m1, KeyVariables, JObj(DictOfTexts(d.v))) ELSE m1
        m3 == IF d.more = "orig" THEN Put(m2, KeyOriginalLog, JStr(<<"a", " ", "1">>)) ELSE m2
    IN  IF d.more = "unknown" THEN Put(m3, <<"x">>, JNum(<<"1">>)) ELSE m3

\* Whitespace around an answer, as <<leading, trailing>>.
Pads == { <<(<<>>), <<>>>>, <<(<<" ">>), <<" ">>>>,
          <<(<<"\n", "\f">>), <<>>>>, <<(<<>>), <<"\f", "\t">>>> }

\* The answers that are cut short: every proper prefix of these.
CutDocs ==
    { [hasT |-> TRUE, t |-> <<"a", "\"">>, hasV |-> TRUE,
       v |-> << <<(<<"a">>), <<"a">>>> >>, more |-> "none"],
      [hasT |-> TRUE, t |-> <<"<", "a">>, hasV |-> FALSE, v |-> <<>>, more |-> "unknown"] }

\* Answers that are no JSON object, or hold a template that is no string.
OtherTexts ==
    { <<"[", "]">>,
      <<"[", "\"", "t", "e", "m", "p", "l", "a", "t", "e", "\"", "]">>,
      <<"1">>, <<"-", "1", "0">>, <<"0", "1">>,
      <<"n", "u", "l", "l">>, <<"t", "r", "u", "e">>, <<"f", "a", "l", "s", "e">>,
      <<"\"", "a", "\"">>,
      <<"\"", "t", "e", "m", "p", "l", "a", "t", "e", "\"">>,
      <<"{", "}">>, <<"{", "}", "{", "}">>, <<"{", "}", " ", "a">>,
      <<"{", "\"", "a", "\"", ":", "1", ",", "}">>,
      <<"{", "\"", "a", "\"", " ", "1", "}">>,
      <<"{", "\"", "a", "\"", ":", "\"", "\\", "a", "\"", "}">>,
      <<"{", "\"", "a", "\"", ":", "\"", "\t", "\"", "}">>,
      <<"{", "\"", "a", "\"", ":", "[", "1", ",", " ", "n", "u", "l", "l", "]", "}">>,
      <<"[", "1", ",", "]">>, <<"[", "1", " ", "1", "]">>, <<"[", "1">>,
      <<"{", "\"", "t", "e", "m", "p", "l", "a", "t", "e", "\"", ":", "1", "}">>,
      <<"{", "\"", "t", "e", "m", "p", "l", "a", "t", "e", "\"", ":", " ", "n", "u", "l", "l", "}">>,
      <<"{", "\"", "a", "\"", ":", "1", ",", " ", "\"", "a", "\"", ":", "2", "}">>,
      <<"a">>, <<>>, <<" ">>, <<"\f">>, <<"{", "\f", "}">> }

\* ------------------------------------------------------------------------
\* Templates the normalizer is applied to
\* ------------------------------------------------------------------------

\* Literal characters of a template, and the names of its placeholders
\* (one or more characters other than ">").
LitChars == {"<", ">", "*", "a", " "}
Names == { <<"a">>, <<"*">>, <<"a", " ">>, <<"<", "a">> }

\* A template is a sequence of items: a literal character, or a placeholder
\* with its name.
Items ==
    {[lit |-> TRUE, s |-> <<c>>] : c \in LitChars}
        \cup {[lit |-> FALSE, s |-> n] : n \in Names}

\* The text of a template.
RECURSIVE Fill(_)
Fill(its) ==
    IF its = <<>> THEN <<>>
    ELSE (IF its[1].lit THEN its[1].s ELSE <<"<">> \o its[1].s \o <<">">>)
         \o Fill(Tail(its))

\* ------------------------------------------------------------------------
\* State
\* ------------------------------------------------------------------------

\* Longest batch of log lines main is run on.
MaxLines == 3

VARIABLES
    logs,      \* main: the batch, a sequence of log-line numbers
    idx,       \* main: the position of the for loop in logs
    pc,        \* main: "extract", "gate", "done" (the loop ended) or
               \*       "crashed" (an exception left main)
    result,    \* main: the local `result` of the current iteration
    calls,     \* the calls made to the external services, in order
    out,       \* what main has printed per line: the parsed result and
               \* whether an embedding length followed it
    raw,       \* extractor run: the content the completion service returned
    doc,       \* extractor run: the answer raw was generated from
    mode,      \* extractor run: "zero" or "few", the extractor that runs
    rec,       \* extractor run: the Dict the extractor returned
    parsePc,   \* extractor run: "call", "done", or "off"
    items,     \* normalizer run: the template, as items
    normOut,   \* normalizer run: what normalize_template returned
    normPc     \* normalizer run: "call", "done", or "off"

mainVars == <<logs, idx, pc, result, calls, out>>
parseVars == <<raw, doc, mode, rec, parsePc>>
normVars == <<items, normOut, normPc>>
vars == <<logs, idx, pc, result, calls, out, raw, doc, mode, rec, parsePc,
          items, normOut, normPc>>

NoDoc == [hasT |-> FALSE, t |-> <<>>, hasV |-> FALSE, v |-> <<>>, more |-> "none"]

MainOff ==
    /\ logs = <<>> /\ idx = 0 /\ pc = "off"
    /\ result = JLit("null") /\ calls = <<>> /\ out = <<>>

ParseOff ==
    /\ raw = <<>> /\ doc = [whole |-> FALSE, pad |-> <<(<<>>), <<>>>>, d |-> NoDoc]
    /\ mode = "few" /\ rec = JLit("null") /\ parsePc = "off"

NormOff == items = <<>> /\ normOut = <<>> /\ normPc = "off"

\* ------------------------------------------------------------------------
\* main
\* ------------------------------------------------------------------------

\* The contents the completion service returns in a run of main.
PipeAnswers ==
    { DocText([hasT |-> TRUE, t |-> <<"<", "a">>, hasV |-> TRUE,
               v |-> << <<(<<"a">>), <<"a">>>> >>, more |-> "none"]),
      DocText([hasT |-> TRUE, t |-> <<>>, hasV |-> TRUE, v |-> <<>>, more |-> "none"]),
      DocText([hasT |-> FALSE, t |-> <<>>, hasV |-> TRUE, v |-> <<>>, more |-> "none"]),
      <<"{", "\"", "t", "e", "m", "p", "l", "a", "t", "e", "\"", ":">>,
      <<"[", "]">>,
      <<"1">>,
      <<"\"", "t", "e", "m", "p", "l", "a", "t", "e", "\"">>,
      <<"{", "\"", "t", "e", "m", "p", "l", "a", "t", "e", "\"", ":", "1", "}">> }

\* Whether the text w occurs in s.
Occurs(w, s) == \E i \in 1..(Len(s) + 1) : StartsAt(s, i, w)

\* `"template" in result`: "true", "false", or "TypeError" for a result
\* that is no container.
TemplateIn(r) ==
    CASE r.kind = "obj" -> IF KeyTemplate \in DOMAIN r.m THEN "true" ELSE "false"
      [] r.kind = "arr" -> IF \E k \in 1..Len(r.a) : r.a[k] = JStr(KeyTemplate)
                           THEN "true" ELSE "false"
      [] r.kind = "str" -> IF Occurs(KeyTemplate, r.s) THEN "true" ELSE "false"
      [] OTHER -> "TypeError"

\* Whether normalize_template(result["template"]) can be evaluated: the
\* subscript needs a dict, .strip() a str.
TemplateIsText(r) ==
    r.kind = "obj" /\ KeyTemplate \in DOMAIN r.m /\ r.m[KeyTemplate].kind = "str"

Call(svc, line, ok, text) == [svc |-> svc, line |-> line, ok |-> ok, text |-> text]

\* The end of an iteration of the for loop.
NextLine ==
    /\ idx' = idx + 1
    /\ pc' = IF idx + 1 > Len(logs) THEN "done" ELSE "extract"

\* Lines 140-142: the completion call returns, the content is decoded and
\* the parsed result is printed.
ExtractReturn ==
    /\ pc = "extract"
    /\ \E content \in PipeAnswers :
          /\ result' = extract_template_and_variables_fewshot(content)
          /\ out' = Append(out, [line |-> logs[idx], record |-> result', emb |-> FALSE])
    /\ calls' = Append(calls, Call("completion", logs[idx], TRUE, <<>>))
    /\ pc' = "gate"
    /\ UNCHANGED <<logs, idx>>
    /\ UNCHANGED parseVars /\ UNCHANGED normVars

\* Lines 72-78: client.chat.completions.create raises (or the content is
\* None and .strip() raises); nothing catches it.
ExtractRaise ==
    /\ pc = "extract"
    /\ calls' = Append(calls, Call("completion", logs[idx], FALSE, <<>>))
    /\ pc' = "crashed"
    /\ UNCHANGED <<logs, idx, result, out>>
    /\ UNCHANGED parseVars /\ UNCHANGED normVars

\* Line 144, the test is false: no embedding for this line.
GateSkip ==
    /\ pc = "gate"
    /\ TemplateIn(result) = "false"
    /\ NextLine
    /\ UNCHANGED <<logs, result, calls, out>>
    /\ UNCHANGED parseVars /\ UNCHANGED normVars

\* Lines 144-145: `in` on a number, true, false or None, the subscript on a
\* list or a str, or .strip() on a template that is no str raises.
GateRaise ==
    /\ pc = "gate"
    /\ \/ TemplateIn(result) = "TypeError"
       \/ TemplateIn(result) = "true" /\ ~TemplateIsText(result)
    /\ pc' = "crashed"
    /\ UNCHANGED <<logs, idx, result, calls, out>>
    /\ UNCHANGED parseVars /\ UNCHANGED normVars

\* Lines 145-146: the embedding call returns a vector; its length is printed.
EmbedReturn ==
    /\ pc = "gate"
    /\ TemplateIn(result) = "true" /\ TemplateIsText(result)
    /\ calls' = Append(calls, Call("embedding", logs[idx], TRUE,
                                   normalize_template(result.m[KeyTemplate].s)))
    /\ out' = [out EXCEPT ![idx].emb = TRUE]
    /\ NextLine
    /\ UNCHANGED <<logs, result>>
    /\ UNCHANGED parseVars /\ UNCHANGED normVars

\* Lines 94-98: client.embeddings.create raises, or returns no vector and
\* response.data[0] raises; nothing catches it.
EmbedRaise ==
    /\ pc = "gate"
    /\ TemplateIn(result) = "true" /\ TemplateIsText(result)
    /\ calls' = Append(calls, Call("embedding", logs[idx], FALSE,
                                   normalize_template(result.m[KeyTemplate].s)))
    /\ pc' = "crashed"
    /\ UNCHANGED <<logs, idx, result, out>>
    /\ UNCHANGED parseVars /\ UNCHANGED normVars

\* main on a batch of 0..MaxLines log lines.
Init ==
    /\ \E n \in 0..MaxLines : logs = [k \in 1..n |-> k]
    /\ idx = 1
    /\ pc = IF logs = <<>> THEN "done" ELSE "extract"
    /\ result = JLit("null")
    /\ calls = <<>>
    /\ out = <<>>
    /\ ParseOff /\ NormOff

Next ==
    \/ ExtractReturn
    \/ ExtractRaise
    \/ GateSkip
    \/ GateRaise
    \/ EmbedReturn
    \/ EmbedRaise

Spec == Init /\ [][Next]_vars

\* ------------------------------------------------------------------------
\* One run of an extractor on one answer
\* ------------------------------------------------------------------------

InitParse ==
    /\ MainOff /\ NormOff
    /\ mode \in {"zero", "few"}
    /\ rec = JLit("null")
    /\ parsePc = "call"
    /\ \/ \E d \in Docs, p \in Pads :
             /\ IsCanonicalDoc(d)
             /\ doc = [whole |-> TRUE, pad |-> p, d |-> d]
             /\ raw = p[1] \o DocText(d) \o p[2]
       \/ \E d \in CutDocs : \E n \in 0..(Len(DocText(d)) - 1) :
             /\ doc = [whole |-> FALSE, pad |-> <<(<<>>), <<>>>>, d |-> d]
             /\ raw = SubSeq(DocText(d), 1, n)
       \/ \E t \in OtherTexts :
             /\ doc = [whole |-> FALSE, pad |-> <<(<<>>), <<>>>>, d |-> NoDoc]
             /\ raw = t

\* extract_template_and_variables returns.
ParseZero ==
    /\ parsePc = "call" /\ mode = "zero"
    /\ rec' = extract_template_and_variables(raw)
    /\ parsePc' = "done"
    /\ UNCHANGED <<raw, doc, mode>>
    /\ UNCHANGED mainVars /\ UNCHANGED normVars

\* extract_template_and_variables_fewshot returns.
ParseFew ==
    /\ parsePc = "call" /\ mode = "few"
    /\ rec' = extract_template_and_variables_fewshot(raw)
    /\ parsePc' = "done"
    /\ UNCHANGED <<raw, doc, mode>>
    /\ UNCHANGED mainVars /\ UNCHANGED normVars

NextParse == ParseZero \/ ParseFew

SpecParse == InitParse /\ [][NextParse]_vars

\* ------------------------------------------------------------------------
\* One run of normalize_template on one template
\* ------------------------------------------------------------------------

InitNorm ==
    /\ MainOff /\ ParseOff
    /\ items \in UNION {[1..k -> Items] : k \in 0..MaxItems}
    /\ normOut = <<>>
    /\ normPc = "call"

\* normalize_template returns.
Normalize ==
    /\ normPc = "call"
    /\ normOut' = normalize_template(Fill(items))
    /\ normPc' = "done"
    /\ UNCHANGED items
    /\ UNCHANGED mainVars /\ UNCHANGED parseVars

NextNorm == Normalize

SpecNorm == InitNorm /\ [][NextNorm]_vars

\* ------------------------------------------------------------------------
\* Properties of main (specification Spec)
\* ------------------------------------------------------------------------

Terminated == pc \in {"done", "crashed"}

\* The record returned for undecodable output: template "<PARSE_ERROR>",
\* variables {}, and an error.
IsSentinel(r) ==
    /\ r.kind = "obj"
    /\ DOMAIN r.m = {KeyTemplate, KeyVariables, KeyError}
    /\ r.m[KeyTemplate] = JStr(ParseErrorTemplate)
    /\ r.m[KeyVariables] = JObj(<<>>)
    /\ r.m[KeyError].kind = "str"

\* The calls of one service made for one line, as indices into calls.
CallsOf(svc, line) ==
    {j \in 1..Len(calls) : calls[j].svc = svc /\ calls[j].line = line}

\* The call an exception of which ended the run, if one did.
AbortedBy(j) == pc = "crashed" /\ j = Len(calls) /\ ~calls[j].ok

\* C1: whatever the services do, the run ends with exactly one result per
\* input line, the i-th result being that of the i-th line.
C1_BatchLength ==
    Terminated =>
        /\ Len(out) = Len(logs)
        /\ \A i \in 1..Len(out) : out[i].line = logs[i]

\* C2: a completion call that raises does not end the run: its line gets
\* the sentinel record, and the run goes on to produce a result for every
\* line.
C2_CompletionFailureIsolated ==
    \A j \in 1..Len(calls) :
        (calls[j].svc = "completion" /\ ~calls[j].ok) =>
            /\ ~AbortedBy(j)
            /\ \E i \in 1..Len(out) :
                  out[i].line = calls[j].line /\ IsSentinel(out[i].record)

\* C3: an embedding call that raises does not end the run: its line keeps
\* its record, without an embedding, and the later lines are processed.
C3_EmbeddingFailureIsolated ==
    \A j \in 1..Len(calls) :
        (calls[j].svc = "embedding" /\ ~calls[j].ok) =>
            /\ ~AbortedBy(j)
            /\ \E i \in 1..Len(out) : out[i].line = calls[j].line /\ ~out[i].emb

\* A record with no error and a template that is a non-empty text.
Embeddable(r) ==
    /\ r.kind = "obj"
    /\ KeyError \notin DOMAIN r.m
    /\ KeyTemplate \in DOMAIN r.m
    /\ r.m[KeyTemplate].kind = "str"
    /\ r.m[KeyTemplate].s # <<>>

\* C4: the embedding service is called for a line exactly when the line's
\* record has no error and a non-empty template.
C4_EmbeddingGated ==
    \A i \in 1..Len(out) :
        /\ CallsOf("embedding", out[i].line) # {} => Embeddable(out[i].record)
        /\ (Embeddable(out[i].record) /\ (idx > i \/ Terminated))
               => CallsOf("embedding", out[i].line) # {}

\* No call is repeated, the completion call of a line comes before its
\* embedding call, and the calls of a line come before those of the next.
CallsInOrder ==
    /\ \A i \in 1..Len(logs) :
          /\ Cardinality(CallsOf("completion", logs[i])) <= 1
          /\ Cardinality(CallsOf("embedding", logs[i])) <= 1
          /\ \A e \in CallsOf("embedding", logs[i]) :
                \E c \in CallsOf("completion", logs[i]) : c < e
    /\ \A j, k \in 1..Len(calls) : j < k => calls[j].line <= calls[k].line

\* C10: in a run, every line causes exactly one completion call and at most
\* one embedding call, in order and without repetition.
C10_OneCompletionPerLine ==
    /\ CallsInOrder
    /\ Terminated =>
          \A i \in 1..Len(logs) : Cardinality(CallsOf("completion", logs[i])) = 1

\* ------------------------------------------------------------------------
\* Properties of the extractors (specification SpecParse)
\* ------------------------------------------------------------------------

\* The content, trimmed, is not the text of a JSON object.
FailsObjectDecoding(content) ==
    LET r == Loads(Strip(content))
    IN  ~r.ok \/ r.val.kind # "obj"

\* C5: content that is not the text of a JSON object yields the sentinel
\* record, in both extractors.
C5_ParserFallback ==
    (parsePc = "done" /\ FailsObjectDecoding(raw)) => IsSentinel(rec)

\* The part of C5 the code keeps: content json.loads refuses yields the
\* sentinel record.
C5_FallbackOnDecodeError ==
    (parsePc = "done" /\ ~Loads(Strip(raw)).ok) => IsSentinel(rec)

\* C6: the text {"template": T, "variables": V}, with whitespace around it,
\* is decoded to a record with that template, those variables and no error.
C6_RoundTrip ==
    (parsePc = "done" /\ doc.whole /\ doc.d.hasT /\ doc.d.hasV /\ doc.d.more = "none") =>
        /\ rec.kind = "obj"
        /\ DOMAIN rec.m = {KeyTemplate, KeyVariables}
        /\ rec.m[KeyTemplate] = JStr(doc.d.t)
        /\ rec.m[KeyVariables] = JObj(DictOfTexts(doc.d.v))

\* A template with a quote, variables with two names, and whitespace that
\* only .strip() removes, decoded by the few-shot extractor.
C6_Witness ==
    /\ parsePc = "done" /\ mode = "few" /\ doc.whole
    /\ doc.d.hasT /\ doc.d.hasV /\ doc.d.more = "none"
    /\ doc.d.t = <<"\"", "<">>
    /\ Len(doc.d.v) = 2
    /\ doc.pad = <<(<<"\n", "\f">>), <<>>>>
    /\ rec.m[KeyTemplate].s = <<"\"", "<">>
    /\ DOMAIN rec.m[KeyVariables].m = {<<"a">>, <<"I", "P">>}

\* C9 as stated: a decoded object always yields a record with variables,
\* empty when the object has none, and with no field besides template,
\* variables and original_log.
C9_VariablesDefaulted ==
    (parsePc = "done" /\ doc.whole) =>
        /\ rec.kind = "obj"
        /\ KeyVariables \in DOMAIN rec.m
        /\ (~doc.d.hasV => rec.m[KeyVariables] = JObj(<<>>))
        /\ DOMAIN rec.m \subseteq {KeyTemplate, KeyVariables, KeyOriginalLog}

\* C9 as the code has it: a decoded object is returned as it is; the
\* record has variables only if the object has, and keeps every field of
\* the object with its value.
C9_DecodedObjectUnchanged ==
    (parsePc = "done" /\ doc.whole) =>
        /\ rec = JObj(DocDict(doc.d))
        /\ (KeyVariables \in DOMAIN rec.m <=> doc.d.hasV)
        /\ (doc.d.more = "unknown" => (<<"x">> \in DOMAIN rec.m /\ rec.m[<<"x">>] = JNum(<<"1">>)))

\* An object with a template, no variables and an unknown field, decoded.
C9_Witness ==
    /\ parsePc = "done" /\ doc.whole
    /\ doc.d.hasT /\ ~doc.d.hasV /\ doc.d.more = "unknown"
    /\ DOMAIN rec.m = {KeyTemplate, <<"x">>}

\* ------------------------------------------------------------------------
\* Properties of normalize_template (specification SpecNorm)
\* ------------------------------------------------------------------------

\* C7: normalizing a normalized template changes nothing.
C7_Idempotent ==
    normPc = "done" => normalize_template(normOut) = normOut

\* "<<a>>" is normalized to "<*>>", on which the substitution matches again.
C7_Witness ==
    /\ normPc = "done"
    /\ Fill(items) = <<"<", "<", "a", ">", ">">>
    /\ normOut = <<"<", "*", ">", ">">>

\* The template with every placeholder renamed to "*".
Renamed(its) ==
    [k \in 1..Len(its) |-> IF its[k].lit THEN its[k] ELSE [lit |-> FALSE, s |-> <<"*">>]]

\* The template with "<*>" put for every placeholder, literals kept.
RECURSIVE Collapsed(_)
Collapsed(its) ==
    IF its = <<>> THEN <<>>
    ELSE (IF its[1].lit THEN its[1].s ELSE Wildcard) \o Collapsed(Tail(its))

\* No literal of the template is an angle bracket.
PlainLiterals(its) ==
    \A k \in 1..Len(its) : its[k].lit => its[k].s \notin {<<"<">>, <<">">>}

\* The text holds a span "<", one or more characters other than ">", ">".
HasPlaceholder(t) ==
    \E i, j \in 1..Len(t) :
        /\ t[i] = "<" /\ t[j] = ">" /\ j >= i + 2
        /\ \A k \in (i + 1)..(j - 1) : t[k] # ">"

\* C8: the result does not depend on the names of the placeholders; with
\* no angle bracket among the literals it is the trimmed template with
\* "<*>" for every placeholder; a template without a placeholder is only
\* trimmed; and "<TIMESTAMP> <*> <IP_ADDRESS>" gives "<*> <*> <*>".
C8_NameIndependent ==
    normPc = "done" =>
        /\ normOut = normalize_template(Fill(Renamed(items)))
        /\ PlainLiterals(items) => normOut = Strip(Collapsed(items))
        /\ ~HasPlaceholder(Fill(items)) => normOut = Strip(Fill(items))
        /\ normalize_template(<<"<", "T", "I", "M", "E", "S", "T", "A", "M", "P", ">", " ",
                                "<", "*", ">", " ",
                                "<", "I", "P", "_", "A", "D", "D", "R", "E", "S", "S", ">">>)
               = <<"<", "*", ">", " ", "<", "*", ">", " ", "<", "*", ">">>

\* " <a > a<<a>" is normalized to "<*> a<*>".
C8_Witness ==
    /\ normPc = "done"
    /\ items = << [lit |-> TRUE, s |-> <<" ">>], [lit |-> FALSE, s |-> <<"a", " ">>],
                  [lit |-> TRUE, s |-> <<"a">>], [lit |-> FALSE, s |-> <<"<", "a">>] >>
    /\ normOut = <<"<", "*", ">", "a", "<", "*", ">">>

====
